---------------------------- MODULE Spec2Model ----------------------------
(***************************************************************************)
(* Model of xblock/scorable.py: the ScorableXBlockMixin.rescore protocol,  *)
(* the two publishing helpers it uses, and the units it is mixed into      *)
(* (the StubScorableBlock of xblock/test/test_scorable.py, a unit whose    *)
(* set_score caps earned at total before storing, and a unit that keeps    *)
(* the mixin's own set_score / calculate_score).                           *)
(*                                                                         *)
(* Encoding of Python values:                                              *)
(*   Score(earned, total)   the tuple <<earned, total>> (a namedtuple is a *)
(*                          tuple); points are small naturals              *)
(*   None                   the empty tuple <<>>                           *)
(*   an optional argument   <<>> when left at None, <<v>> when given       *)
(*   a dict                 a function from key strings to values          *)
(*   an exception           the name of its class                          *)
(***************************************************************************)
EXTENDS Integers, Sequences, FiniteSets, TLC

\* Largest number of points (earned or total) a score of the model holds.
MaxPoints == 2

\* Number of distinct unit locations.
MaxLocation == 2

None == <<>>

Score(earned, total) == <<earned, total>>

Earned(score) == score[1]

Total(score) == score[2]

\* namedtuple._asdict(): the score as a mapping of field name to value.
AsDict(score) == [earned |-> score[1], total |-> score[2]]

Scores == {Score(e, t) : e \in 0..MaxPoints, t \in 1..MaxPoints}

Locations == 1..MaxLocation

\* six.text_type(location): the text form of the location object.
TextType(location) == ToString(location)

(***************************************************************************)
(* Exceptions.  ExceptionKinds are subclasses of Exception; a              *)
(* KeyboardInterrupt derives from BaseException only.                      *)
(***************************************************************************)
ExceptionKinds == {"TypeError", "ValueError", "ZeroDivisionError"}

BaseOnlyKinds == {"KeyboardInterrupt"}

\* A mutant of CaughtByExceptException: a handler for ZeroDivisionError only.
CaughtOnlyArithmetic(exc) == exc = "ZeroDivisionError"

\* `except Exception:` catches the subclasses of Exception.
CaughtByExceptException(exc) == exc \in ExceptionKinds

(***************************************************************************)
(* Dictionaries.                                                           *)
(***************************************************************************)
EmptyDict == [k \in {} |-> k]

\* dict.update(other): the keys of other are set, overwriting.
DictUpdate(d, other) ==
    [k \in (DOMAIN d) \cup (DOMAIN other) |->
        IF k \in DOMAIN other THEN other[k] ELSE d[k]]

\* ScorableXBlockMixin._base_event_info
BaseEventInfo(location) == [usage_key |-> TextType(location)]

\* A mutant of Logged: the base context is laid down first, the caller's
\* data over it.
LoggedDataOnTop(data, location) ==
    DictUpdate(DictUpdate(EmptyDict, BaseEventInfo(location)), data)

\* The payload _publish_scoring_event builds: logged = {};
\* logged.update(data); logged.update(self._base_event_info()).
Logged(data, location) ==
    DictUpdate(DictUpdate(EmptyDict, data), BaseEventInfo(location))

\* The dictionary _publish_grade builds from the score it read; the
\* only_if_higher key is set when the argument is not None.
GradeDict(score, only_if_higher) ==
    LET grade_dict == [value |-> Earned(score), max_value |-> Total(score)]
    IN  IF only_if_higher # None
        THEN DictUpdate(grade_dict, [only_if_higher |-> only_if_higher[1]])
        ELSE grade_dict

\* A mutant of ScoreGt: the scores are compared as fractions earned/total.
ScoreGtPercentage(a, b) == Earned(a) * Total(b) > Earned(b) * Total(a)

(***************************************************************************)
(* Python's tuple comparison a > b on two scores: lexicographic.           *)
(***************************************************************************)
ScoreGt(a, b) ==
    \/ Earned(a) > Earned(b)
    \/ Earned(a) = Earned(b) /\ Total(a) > Total(b)

(***************************************************************************)
(* The state.                                                              *)
(***************************************************************************)
VARIABLES
    location,       \* the unit's location attribute
    allows,         \* the unit's _allows_rescore attribute
    setKind,        \* which set_score the unit has: "stub", "clamp", "mixin"
    calcKind,       \* which calculate_score the unit has: "unit", "mixin"
    host,           \* how the host runtime behaves
    py,             \* the major version of the Python running the code
    result,         \* the persisted score of the unit, or None
    call,           \* the arguments and environment of the latest call
    outcome,        \* how the latest call ended
    calls,          \* the methods the latest call invoked, in order
    published,      \* what the latest call handed to runtime.publish, in order
    setArgs,        \* the arguments the latest call gave set_score, in order
    data,           \* the caller's mapping given to _publish_scoring_event,
                    \* as it is after the call
    passed,         \* that mapping as it was when the caller passed it
    procs,          \* the concurrent rescore calls on the unit, each with
                    \* its position, its frame and its local variables
    serialized,     \* whether the host runs the calls under a lock
    lock,           \* the call holding the host's lock, or 0
    writer,         \* the concurrent call that persisted the score, or 0
    lost            \* the first overwrite <<old, new>> in which a call
                    \* replaced the score another call persisted by one
                    \* that is not greater, or None

vars == <<location, allows, setKind, calcKind, host, py, result, call,
          outcome, calls, published, setArgs, data, passed,
          procs, serialized, lock, writer, lost>>

concVars == <<procs, serialized, lock, writer, lost>>

unitVars == <<location, setKind, calcKind, host, py>>

Idle == "idle"

Running == "running"

PythonVersions == {2, 3}

\* Two calls of rescore in flight on one unit.
Procs == {1, 2}

SetKinds == {"stub", "clamp", "mixin"}

CalcKinds == {"unit", "mixin"}

ReliableHost == [lookupOk |-> TRUE, publishOk |-> TRUE, interrupts |-> FALSE]

\* The reliable host and the hosts with one fault: a failing service
\* lookup, a failing publish, an interrupt delivered during calculation.
Hosts ==
    {ReliableHost,
     [ReliableHost EXCEPT !.lookupOk = FALSE],
     [ReliableHost EXCEPT !.publishOk = FALSE],
     [ReliableHost EXCEPT !.interrupts = TRUE]}

(***************************************************************************)
(* What calculate_score does in one call: return a score or raise.         *)
(***************************************************************************)
Returns(value) == [raises |-> FALSE, exc |-> "", value |-> value]

Raises(exc) == [raises |-> TRUE, exc |-> exc, value |-> None]

CalcOutcomes(h) ==
    {Returns(s) : s \in Scores}
        \cup {Raises(e) : e \in ExceptionKinds}
        \cup (IF h.interrupts THEN {Raises(e) : e \in BaseOnlyKinds} ELSE {})

(***************************************************************************)
(* A frame is one running call: the persisted score it sees, what it has   *)
(* invoked and published so far, and whether it is still running.  Every   *)
(* step leaves a frame that has already ended as it is, which is how a     *)
(* raised exception skips the rest of the call.                            *)
(***************************************************************************)
Begin(r) ==
    [result |-> r, calls |-> <<>>, published |-> <<>>, setArgs |-> <<>>,
     outcome |-> Running]

Call(f, op) ==
    IF f.outcome # Running THEN f ELSE [f EXCEPT !.calls = Append(@, op)]

Raise(f, exc) ==
    IF f.outcome # Running THEN f ELSE [f EXCEPT !.outcome = exc]

Return(f, value) ==
    IF f.outcome # Running THEN f
    ELSE [f EXCEPT !.outcome = IF value THEN "True" ELSE "False"]

\* self.runtime.service(self, 'i18n').ugettext
RuntimeService(f, h) ==
    IF h.lookupOk THEN Call(f, "service")
    ELSE Raise(Call(f, "service"), "HostError")

\* self.runtime.publish(name, payload)
RuntimePublish(f, h, name, payload) ==
    IF f.outcome # Running THEN f
    ELSE IF h.publishOk
         THEN [Call(f, "publish") EXCEPT
                  !.published = Append(@, [name |-> name, payload |-> payload])]
         ELSE Raise(Call(f, "publish"), "HostError")

\* ScorableXBlockMixin._publish_scoring_event
PublishScoringEvent(f, h, loc, name, payload) ==
    RuntimePublish(f, h, name, Logged(payload, loc))

\* A mutant of PublishGrade: nothing is published.
PublishGradeSkipped(f, h, only_if_higher) == Call(f, "get_score")

\* ScorableXBlockMixin._publish_grade: the score is read back with
\* get_score(); score.earned on None raises AttributeError.
PublishGrade(f, h, only_if_higher) ==
    LET f1 == Call(f, "get_score")
        score == f1.result
    IN  IF score = None THEN Raise(f1, "AttributeError")
        ELSE RuntimePublish(f1, h, "grade", GradeDict(score, only_if_higher))

\* What a clamping unit persists: earned is capped at total.
Clamp(score) ==
    Score(IF Earned(score) > Total(score) THEN Total(score) ELSE Earned(score),
          Total(score))

\* A mutant of SetScore: the stub keeps its old result.
SetScoreDropped(f, kind, score) ==
    IF f.outcome # Running THEN f
    ELSE LET f1 == [Call(f, "set_score") EXCEPT !.setArgs = Append(@, score)]
         IN  CASE kind = "stub" -> f1
               [] kind = "clamp" ->
                    IF score = None THEN Raise(f1, "AttributeError")
                    ELSE [f1 EXCEPT !.result = Clamp(score)]
               [] kind = "mixin" -> Raise(f1, "NotImplementedError")

\* set_score(score).  The stub stores its argument; a clamping unit
\* persists the score with earned capped at total (reading the fields of
\* None raises AttributeError); the mixin's own set_score raises
\* NotImplementedError.
SetScore(f, kind, score) ==
    IF f.outcome # Running THEN f
    ELSE LET f1 == [Call(f, "set_score") EXCEPT !.setArgs = Append(@, score)]
         IN  CASE kind = "stub" -> [f1 EXCEPT !.result = score]
               [] kind = "clamp" ->
                    IF score = None THEN Raise(f1, "AttributeError")
                    ELSE [f1 EXCEPT !.result = Clamp(score)]
               [] kind = "mixin" -> Raise(f1, "NotImplementedError")

\* calculate_score().  The mixin's own has a docstring for a body: it
\* returns None and raises nothing.
CalculateScore(kind, calc) ==
    IF kind = "mixin" THEN Returns(None) ELSE calc

(***************************************************************************)
(* ScorableXBlockMixin.rescore, branch by branch.                          *)
(***************************************************************************)

\* A mutant of RescoreUnsupported: the failure is reported by a False
\* return instead of being raised.
RescoreUnsupportedReturns(f, h, loc) ==
    Return(PublishScoringEvent(f, h, loc, "rescore_failure",
                               [failure |-> "unsupported"]), FALSE)

\* if not self.allows_rescore(): publish the failure, raise TypeError.
RescoreUnsupported(f, h, loc) ==
    Raise(PublishScoringEvent(f, h, loc, "rescore_failure",
                              [failure |-> "unsupported"]), "TypeError")

\* A mutant of RescoreUnanswered: the wrong exception class.
RescoreUnansweredTypeError(f, h, loc) ==
    Raise(PublishScoringEvent(f, h, loc, "rescore_failure",
                              [failure |-> "unanswered"]), "TypeError")

\* if original_score is None: publish the failure, raise ValueError.
RescoreUnanswered(f, h, loc) ==
    Raise(PublishScoringEvent(f, h, loc, "rescore_failure",
                              [failure |-> "unanswered"]), "ValueError")

\* except Exception: publish the failure, return False.
RescoreCalculationError(f, h, loc) ==
    Return(PublishScoringEvent(f, h, loc, "rescore_failure",
                               [failure |-> "calculation error"]), FALSE)

\* A mutant of RescoreResult: original_score is read from the unit when the
\* event is built, that is, after set_score.
RescoreResultReadLate(f, h, loc, tag, original_score, new_score) ==
    IF new_score = None THEN Raise(f, "AttributeError")
    ELSE PublishScoringEvent(f, h, loc, "rescore_result",
             [result |-> tag,
              original_score |-> AsDict(f.result),
              new_score |-> AsDict(new_score)])

\* The payload of a rescore_result event.  new_score._asdict() on None
\* raises AttributeError before anything is published.
RescoreResult(f, h, loc, tag, original_score, new_score) ==
    IF new_score = None THEN Raise(f, "AttributeError")
    ELSE PublishScoringEvent(f, h, loc, "rescore_result",
             [result |-> tag,
              original_score |-> AsDict(original_score),
              new_score |-> AsDict(new_score)])

\* A mutant of RescoreUpdated: the grade is published before set_score.
RescoreUpdatedGradeFirst(f, h, loc, kind, only_if_higher, original_score, new_score) ==
    LET f1 == PublishGrade(f, h, <<only_if_higher>>)
        f2 == SetScore(f1, kind, new_score)
        f3 == RescoreResult(f2, h, loc, "score updated", original_score, new_score)
    IN  Return(f3, TRUE)

\* The persisting branch: set_score, _publish_grade, the event, True.
RescoreUpdated(f, h, loc, kind, only_if_higher, original_score, new_score) ==
    LET f1 == SetScore(f, kind, new_score)
        f2 == PublishGrade(f1, h, <<only_if_higher>>)
        f3 == RescoreResult(f2, h, loc, "score updated", original_score, new_score)
    IN  Return(f3, TRUE)

\* A mutant of RescoreNotChanged: no event on the branch that keeps the score.
RescoreNotChangedSilent(f, h, loc, original_score, new_score) ==
    Return(f, FALSE)

\* The else branch: the event, False.
RescoreNotChanged(f, h, loc, original_score, new_score) ==
    Return(RescoreResult(f, h, loc, "score not changed",
                         original_score, new_score), FALSE)

\* A mutant of ShouldPersist: the comparison is dropped.
ShouldPersistAlways(only_if_higher, new_score, original_score) == TRUE

\* A mutant of ShouldPersist: the only_if_higher flag is not consulted.
ShouldPersistOnlyHigher(only_if_higher, new_score, original_score) ==
    new_score # None /\ ScoreGt(new_score, original_score)

\* A mutant of ShouldPersist: >= in place of >.
ShouldPersistNotLower(only_if_higher, new_score, original_score) ==
    \/ ~only_if_higher
    \/ new_score # None /\ ~ScoreGt(original_score, new_score)

\* `not only_if_higher or new_score > original_score`, where it yields a
\* value.  Python 2 orders None below every tuple.
ShouldPersist(only_if_higher, new_score, original_score) ==
    \/ ~only_if_higher
    \/ new_score # None /\ ScoreGt(new_score, original_score)

\* Python 3 raises TypeError on None > tuple.
ComparisonRaises(version, only_if_higher, new_score) ==
    only_if_higher /\ new_score = None /\ version = 3

\* A mutant of AllowsRescore: the mixin's default, which returns True.
AllowsRescoreDefault(allowed) == TRUE

\* The unit's allows_rescore(): the stub returns its _allows_rescore.
AllowsRescore(allowed) == allowed

\* One whole call of rescore(only_if_higher) on the unit u under host h,
\* started in frame f0; calc is what the unit's calculate_score does in
\* this call.
Rescore(f0, u, h, version, only_if_higher, calc) ==
    LET f1 == Call(RuntimeService(f0, h), "allows_rescore")
    IN  IF ~AllowsRescore(u.allows) THEN RescoreUnsupported(f1, h, u.location)
        ELSE
        LET f2 == Call(f1, "get_score")
            original_score == f2.result
        IN  IF original_score = None THEN RescoreUnanswered(f2, h, u.location)
            ELSE
            LET f3 == Call(f2, "calculate_score")
                got == CalculateScore(u.calcKind, calc)
                new_score == got.value
            IN  IF got.raises
                THEN IF CaughtByExceptException(got.exc)
                     THEN RescoreCalculationError(f3, h, u.location)
                     ELSE Raise(f3, got.exc)
                ELSE IF ComparisonRaises(version, only_if_higher, new_score)
                THEN Raise(f3, "TypeError")
                ELSE IF ShouldPersist(only_if_higher, new_score, original_score)
                THEN RescoreUpdated(f3, h, u.location, u.setKind, only_if_higher,
                                    original_score, new_score)
                ELSE RescoreNotChanged(f3, h, u.location, original_score, new_score)

(***************************************************************************)
(* The state machine.                                                      *)
(***************************************************************************)
Unit == [allows |-> allows, location |-> location,
         setKind |-> setKind, calcKind |-> calcKind]

\* A call that has not started.
IdleProc == [pc |-> "idle", frame |-> Begin(None),
             original_score |-> None, new_score |-> None]

NoCall == [only_if_higher |-> FALSE, allowed |-> TRUE, before |-> None,
           calc |-> Returns(None)]

\* StubScorableBlock.__init__(initial), on a unit and a host that keep the
\* contract: set_score and calculate_score are the unit's own and the host's
\* lookup and publish succeed.
InitCommon ==
    /\ location \in Locations
    /\ allows = TRUE
    /\ py \in PythonVersions
    /\ result \in Scores \cup {None}
    /\ call = NoCall
    /\ outcome = Idle
    /\ calls = <<>>
    /\ published = <<>>
    /\ setArgs = <<>>
    /\ data = EmptyDict
    /\ passed = EmptyDict
    /\ procs = [p \in Procs |-> IdleProc]
    /\ lock = 0
    /\ writer = 0
    /\ lost = None

Init ==
    /\ InitCommon
    /\ setKind \in {"stub", "clamp"}
    /\ calcKind = "unit"
    /\ host = ReliableHost
    /\ serialized = FALSE

\* The same, for every unit and host: the unit may keep the mixin's own
\* set_score or calculate_score, and the host may fail.
InitAny ==
    /\ InitCommon
    /\ setKind \in SetKinds
    /\ calcKind \in CalcKinds
    /\ host \in Hosts
    /\ serialized = FALSE

\* block._allows_rescore = b
SetAllowsRescore ==
    \E b \in BOOLEAN :
        /\ allows' = b
        /\ UNCHANGED <<unitVars, result, call, outcome, calls, published,
                       setArgs, data, passed, concVars>>

\* block.rescore(only_if_higher)
RescoreCall ==
    \E only_if_higher \in BOOLEAN, calc \in CalcOutcomes(host) :
        LET f == Rescore(Begin(result), Unit, host, py, only_if_higher, calc)
        IN  /\ call' = [only_if_higher |-> only_if_higher,
                        allowed |-> allows,
                        before |-> result,
                        calc |-> CalculateScore(calcKind, calc)]
            /\ result' = f.result
            /\ outcome' = f.outcome
            /\ calls' = f.calls
            /\ published' = f.published
            /\ setArgs' = f.setArgs
            /\ UNCHANGED <<unitVars, allows, data, passed, concVars>>

Next == SetAllowsRescore \/ RescoreCall

Spec == Init /\ [][Next]_vars

SpecAny == InitAny /\ [][Next]_vars

(***************************************************************************)
(* _publish_scoring_event called on its own, with any caller payload.      *)
(***************************************************************************)
EventNames == {"rescore_failure", "rescore_result"}

\* A key only callers set and the key the base context sets.
PayloadKeys == {"failure", "usage_key"}

\* Texts a caller may put under a key; the text of some unit's location
\* and a text that is no location among them.
PayloadValues == {"unsupported", "elsewhere"}
                    \cup {TextType(l) : l \in Locations}

CallerPayloads == UNION {[K -> PayloadValues] : K \in SUBSET PayloadKeys}

\* A mutant of LoggedObject: `logged = data`, the two names share one dict.
LoggedObjectAliased == "data"

\* The dict the name `logged` is bound to: `logged = {}` makes a new one.
LoggedObject == "logged"

\* The dicts in memory when _publish_scoring_event(name, d) returns, by
\* the name that holds them: `data` is the caller's dict d, `logged` the
\* new one; both updates go to the dict `logged` is bound to.
ScoringEventObjects(d, loc) ==
    LET heap0 == [data |-> d, logged |-> EmptyDict]
        heap1 == [heap0 EXCEPT ![LoggedObject] = DictUpdate(@, heap0.data)]
        heap2 == [heap1 EXCEPT ![LoggedObject] = DictUpdate(@, BaseEventInfo(loc))]
    IN  heap2

\* self._publish_scoring_event(name, d): the method builds its mapping,
\* publishes it and returns None.
PublishScoringEventCall ==
    \E name \in EventNames, d \in CallerPayloads :
        LET f == PublishScoringEvent(Begin(result), host, location, name, d)
        IN  /\ passed' = d
            /\ data' = ScoringEventObjects(d, location).data
            /\ outcome' = IF f.outcome = Running THEN "None" ELSE f.outcome
            /\ calls' = f.calls
            /\ published' = f.published
            /\ setArgs' = f.setArgs
            /\ call' = NoCall
            /\ UNCHANGED <<unitVars, allows, result, concVars>>

NextEvent == PublishScoringEventCall

SpecEvent == Init /\ [][NextEvent]_vars

(***************************************************************************)
(* Two calls of rescore(only_if_higher=True) on one unit, interleaved at   *)
(* the unit's methods: each call reads the score (allows_rescore and       *)
(* get_score), then calculates, then compares, persists and publishes.     *)
(* A host that serializes gives its lock to a call that has read a score   *)
(* and takes it back when the call ends.                                   *)
(***************************************************************************)
seqVars == <<call, outcome, calls, published, setArgs, data, passed>>

\* A stub unit on a reliable host; the host may or may not serialize.
InitConcurrent ==
    /\ InitCommon
    /\ setKind = "stub"
    /\ calcKind = "unit"
    /\ host = ReliableHost
    /\ serialized \in BOOLEAN

\* rescore up to original_score = self.get_score() and the check on it.
ReadStep(p) ==
    /\ procs[p].pc = "idle"
    /\ serialized => lock = 0
    /\ LET f1 == Call(RuntimeService(Begin(result), host), "allows_rescore")
           f2 == Call(f1, "get_score")
           ended == IF ~AllowsRescore(allows)
                    THEN RescoreUnsupported(f1, host, location)
                    ELSE RescoreUnanswered(f2, host, location)
       IN  IF ~AllowsRescore(allows) \/ result = None
           THEN /\ procs' = [procs EXCEPT ![p] =
                        [@ EXCEPT !.pc = "done", !.frame = ended]]
                /\ lock' = lock
           ELSE /\ procs' = [procs EXCEPT ![p] =
                        [@ EXCEPT !.pc = "read", !.frame = f2,
                                  !.original_score = result]]
                /\ lock' = IF serialized THEN p ELSE lock
    /\ UNCHANGED <<unitVars, allows, result, seqVars, serialized, writer, lost>>

\* new_score = self.calculate_score(), with its except branch.
CalculateStep(p) ==
    /\ procs[p].pc = "read"
    /\ \E calc \in CalcOutcomes(host) :
          LET f3 == Call(procs[p].frame, "calculate_score")
              got == CalculateScore(calcKind, calc)
          IN  IF got.raises
              THEN /\ procs' = [procs EXCEPT ![p] =
                           [@ EXCEPT !.pc = "done",
                                     !.frame = IF CaughtByExceptException(got.exc)
                                               THEN RescoreCalculationError(f3, host, location)
                                               ELSE Raise(f3, got.exc)]]
                   /\ lock' = IF lock = p THEN 0 ELSE lock
              ELSE /\ procs' = [procs EXCEPT ![p] =
                           [@ EXCEPT !.pc = "calculated", !.frame = f3,
                                     !.new_score = got.value]]
                   /\ lock' = lock
    /\ UNCHANGED <<unitVars, allows, result, seqVars, serialized, writer, lost>>

\* The comparison and the branch it selects, to the return.
PersistStep(p) ==
    /\ procs[p].pc = "calculated"
    /\ LET original_score == procs[p].original_score
           new_score == procs[p].new_score
           f == [procs[p].frame EXCEPT !.result = result]
           g == IF ShouldPersist(TRUE, new_score, original_score)
                THEN RescoreUpdated(f, host, location, setKind, TRUE,
                                    original_score, new_score)
                ELSE RescoreNotChanged(f, host, location, original_score, new_score)
           wrote == g.setArgs # <<>>
       IN  /\ procs' = [procs EXCEPT ![p] = [@ EXCEPT !.pc = "done", !.frame = g]]
           /\ result' = g.result
           /\ writer' = IF wrote THEN p ELSE writer
           /\ lost' = IF /\ wrote
                         /\ lost = None
                         /\ writer \notin {0, p}
                         /\ ~ScoreGt(g.result, result)
                      THEN <<result, g.result>>
                      ELSE lost
    /\ lock' = IF lock = p THEN 0 ELSE lock
    /\ UNCHANGED <<unitVars, allows, seqVars, serialized>>

NextConcurrent ==
    \E p \in Procs : ReadStep(p) \/ CalculateStep(p) \/ PersistStep(p)

SpecConcurrent == InitConcurrent /\ [][NextConcurrent]_vars

(***************************************************************************)
(* Vocabulary of the properties.                                           *)
(***************************************************************************)
Called(op) == \E i \in DOMAIN calls : calls[i] = op

Records(names) == {i \in DOMAIN published : published[i].name \in names}

GradeRecords == Records({"grade"})

AuditEvents == Records(EventNames)

\* The ways the docstring of rescore says a call ends.
FourOutcomes == {"TypeError", "ValueError", "False", "True"}

\* A rescore call has ended.
Ended == outcome \notin {Idle, "None"}

\* The latest rescore call got past both checks and its calculate_score
\* returned a score.
Calculated ==
    /\ Ended
    /\ call.allowed
    /\ call.before # None
    /\ ~call.calc.raises
    /\ call.calc.value # None

(***************************************************************************)
(* C1.  On a unit whose allows_rescore() returns false, rescore raises     *)
(* TypeError whatever only_if_higher is, calls neither calculate_score nor *)
(* set_score, and leaves the persisted score as it was.                    *)
(***************************************************************************)
C1_UnsupportedRaises ==
    (Ended /\ ~call.allowed) =>
        /\ outcome = "TypeError"
        /\ ~Called("calculate_score")
        /\ ~Called("set_score")
        /\ setArgs = <<>>
        /\ result = call.before

C1_Witness ==
    /\ Ended
    /\ ~call.allowed
    /\ call.only_if_higher
    /\ call.before # None
    /\ outcome = "TypeError"

(***************************************************************************)
(* C2.  On a unit that allows rescoring and has no persisted score,        *)
(* rescore raises ValueError whatever only_if_higher is, calls neither     *)
(* calculate_score nor set_score, and the persisted score stays absent.    *)
(***************************************************************************)
C2_UnansweredRaises ==
    (Ended /\ call.allowed /\ call.before = None) =>
        /\ outcome = "ValueError"
        /\ ~Called("calculate_score")
        /\ ~Called("set_score")
        /\ setArgs = <<>>
        /\ result = None

C2_Witness ==
    /\ Ended
    /\ call.allowed
    /\ call.before = None
    /\ ~call.only_if_higher
    /\ outcome = "ValueError"

(***************************************************************************)
(* C3.  On a unit that allows rescoring and has a persisted score, when    *)
(* calculate_score raises (a TypeError or ValueError included) rescore     *)
(* returns False, does not call set_score, publishes no grade record and   *)
(* leaves the persisted score as it was.                                   *)
(***************************************************************************)
C3_CalculationErrorSwallowed ==
    (Ended /\ call.allowed /\ call.before # None /\ call.calc.raises) =>
        /\ outcome = "False"
        /\ ~Called("set_score")
        /\ setArgs = <<>>
        /\ GradeRecords = {}
        /\ result = call.before

C3_Witness ==
    /\ Ended
    /\ call.allowed
    /\ call.before # None
    /\ call.calc.raises
    /\ call.calc.exc = "TypeError"
    /\ outcome = "False"

(***************************************************************************)
(* C4.  With only_if_higher False, a call whose calculate_score returned   *)
(* a score calls set_score exactly once, with that score, and returns      *)
(* True, whether the new score is greater than, equal to or lower than     *)
(* the original.                                                           *)
(***************************************************************************)
C4_AlwaysPersists ==
    (Calculated /\ ~call.only_if_higher) =>
        /\ setArgs = <<call.calc.value>>
        /\ outcome = "True"

C4_Witness ==
    /\ Calculated
    /\ ~call.only_if_higher
    /\ ScoreGt(call.before, call.calc.value)
    /\ setArgs = <<call.calc.value>>
    /\ outcome = "True"

(***************************************************************************)
(* C5.  With only_if_higher True, a call whose calculate_score returned a  *)
(* score persists it and returns True exactly when it is strictly greater  *)
(* than the original in (earned, total) order; otherwise set_score is not  *)
(* called, the persisted score is unchanged and the call returns False.    *)
(***************************************************************************)
C5_PersistsIffHigher ==
    (Calculated /\ call.only_if_higher) =>
        IF ScoreGt(call.calc.value, call.before)
        THEN /\ setArgs = <<call.calc.value>>
             /\ setKind = "stub" => result = call.calc.value
             /\ outcome = "True"
        ELSE /\ setArgs = <<>>
             /\ ~Called("set_score")
             /\ result = call.before
             /\ outcome = "False"

C5_Witness ==
    /\ Calculated
    /\ call.only_if_higher
    /\ call.calc.value = call.before
    /\ setArgs = <<>>
    /\ outcome = "False"

(***************************************************************************)
(* C6.  Every rescore call publishes exactly one audit event               *)
(* (rescore_failure or rescore_result); it publishes exactly one grade     *)
(* record when it called set_score and none when it did not.               *)
(***************************************************************************)
C6_OneAuditEvent ==
    Ended =>
        /\ Cardinality(AuditEvents) = 1
        /\ Cardinality(GradeRecords) = (IF Called("set_score") THEN 1 ELSE 0)
        /\ Len(published) = Cardinality(AuditEvents) + Cardinality(GradeRecords)

C6_Witness ==
    /\ Ended
    /\ Called("set_score")
    /\ Cardinality(GradeRecords) = 1
    /\ Cardinality(AuditEvents) = 1

(***************************************************************************)
(* C7.  On the persisting path the grade record carries the earned and     *)
(* total of the score calculate_score returned in this call, and the       *)
(* only_if_higher of the call, on every unit.                              *)
(***************************************************************************)
C7_GradeIsNewScore ==
    (Calculated /\ outcome = "True") =>
        \A i \in GradeRecords :
            /\ published[i].payload.value = Earned(call.calc.value)
            /\ published[i].payload.max_value = Total(call.calc.value)
            /\ published[i].payload.only_if_higher = call.only_if_higher

(***************************************************************************)
(* C8.  As claimed: for every key that is both in the caller's payload and *)
(* in the base context, the published payload holds the caller's value.    *)
(***************************************************************************)
C8_CallerTakesPrecedence ==
    (outcome = "None" /\ Len(published) = 1) =>
        \A k \in (DOMAIN data) \cap (DOMAIN BaseEventInfo(location)) :
            published[1].payload[k] = data[k]

(***************************************************************************)
(* C8, amended.  The base context takes precedence: the published payload  *)
(* has the keys of both, holds the base context's value for every key of   *)
(* the base context (usage_key) and the caller's value for every other key.*)
(***************************************************************************)
C8_BaseTakesPrecedence ==
    (outcome = "None" /\ Len(published) = 1) =>
        LET payload == published[1].payload
            base == BaseEventInfo(location)
        IN  /\ DOMAIN payload = (DOMAIN data) \cup (DOMAIN base)
            /\ \A k \in DOMAIN base : payload[k] = base[k]
            /\ \A k \in (DOMAIN data) \ (DOMAIN base) : payload[k] = data[k]

C8_Witness ==
    /\ outcome = "None"
    /\ Len(published) = 1
    /\ "usage_key" \in DOMAIN data
    /\ "failure" \in DOMAIN data
    /\ data.usage_key # TextType(location)
    /\ published[1].payload.usage_key = TextType(location)
    /\ published[1].payload.failure = data.failure

(***************************************************************************)
(* C9.  Every rescore call ends by raising TypeError, raising ValueError,  *)
(* returning False or returning True.  Stated here for the units the       *)
(* claim names first: on a reliable host, with a set_score that stores,    *)
(* including the unit that keeps the mixin's own calculate_score.          *)
(***************************************************************************)
C9_FourOutcomes ==
    (Ended /\ host = ReliableHost /\ setKind = "stub") =>
        outcome \in FourOutcomes

(***************************************************************************)
(* C10.  Round trip on a unit whose set_score stores its argument: after   *)
(* a call that returned True, get_score() returns the score the call gave  *)
(* set_score, which is the score calculate_score returned in the call.     *)
(***************************************************************************)
C10_RoundTrip ==
    (Ended /\ outcome = "True" /\ setKind = "stub") =>
        /\ Len(setArgs) = 1
        /\ result = setArgs[1]
        /\ setArgs[1] = call.calc.value

C10_Witness ==
    /\ Ended
    /\ outcome = "True"
    /\ setKind = "stub"
    /\ result = call.calc.value
    /\ result # call.before

(***************************************************************************)
(* More vocabulary: the order of the invocations of the latest call.       *)
(***************************************************************************)

\* Every invocation of b comes after some invocation of a.
Precedes(a, b) ==
    \A j \in DOMAIN calls :
        calls[j] = b => \E i \in 1..(j - 1) : calls[i] = a

\* The invocations of a rescore call that persists, in the order of the code.
UpdatedCalls ==
    <<"service", "allows_rescore", "get_score", "calculate_score",
      "set_score", "get_score", "publish", "publish">>

\* The one audit event of the latest call.
TheAudit == published[CHOOSE i \in AuditEvents : TRUE]

(***************************************************************************)
(* C11.  Inside one rescore call: allows_rescore comes before any          *)
(* get_score, get_score before calculate_score, calculate_score before     *)
(* set_score, set_score before any publish; the grade record is published  *)
(* before the 'score updated' event; and on the two raising paths the      *)
(* failure event has been published when the error is raised.              *)
(***************************************************************************)
C11_StepOrder ==
    Ended =>
        /\ Precedes("allows_rescore", "get_score")
        /\ Precedes("get_score", "calculate_score")
        /\ Precedes("calculate_score", "set_score")
        /\ Called("set_score") =>
              /\ Precedes("set_score", "publish")
              /\ Len(published) = 2
              /\ published[1].name = "grade"
              /\ published[2].name = "rescore_result"
              /\ published[2].payload.result = "score updated"
        /\ outcome \in {"TypeError", "ValueError"} =>
              /\ Len(published) = 1
              /\ published[1].name = "rescore_failure"
              /\ calls[Len(calls)] = "publish"

C11_Witness ==
    /\ Ended
    /\ outcome = "True"
    /\ calls = UpdatedCalls
    /\ published[1].name = "grade"
    /\ published[2].name = "rescore_result"

(***************************************************************************)
(* C12.  With only_if_higher True the new score is persisted exactly when  *)
(* new.earned > original.earned, or new.earned = original.earned and       *)
(* new.total > original.total: so a new score with equal earned and larger *)
(* total is persisted although its earned/total fraction is not higher, a  *)
(* new score with larger earned is persisted whatever its total, and a new *)
(* score equal to the original is not persisted.                           *)
(***************************************************************************)
C12_Lexicographic ==
    (Calculated /\ call.only_if_higher) =>
        LET new == call.calc.value
            original == call.before
            persisted == setArgs = <<new>> /\ outcome = "True"
        IN  /\ persisted <=>
                  \/ new[1] > original[1]
                  \/ new[1] = original[1] /\ new[2] > original[2]
            /\ (new[1] = original[1] /\ new[2] > original[2]) => persisted
            /\ new[1] > original[1] => persisted
            /\ new = original => ~persisted /\ setArgs = <<>>

C12_Witness ==
    /\ Calculated
    /\ call.only_if_higher
    /\ call.calc.value[1] = call.before[1]
    /\ call.calc.value[2] > call.before[2]
    /\ call.calc.value[1] * call.before[2] < call.before[1] * call.calc.value[2]
    /\ setArgs = <<call.calc.value>>
    /\ outcome = "True"

(***************************************************************************)
(* C13.  The audit event of a call matches the path taken: rescore_failure *)
(* 'unsupported' exactly when allows_rescore() was false, 'unanswered'     *)
(* exactly when rescoring was allowed and the score absent, 'calculation   *)
(* error' exactly when calculate_score raised; rescore_result 'score       *)
(* updated' exactly when set_score was called and 'score not changed'      *)
(* exactly when a score was calculated and set_score was not called.  A    *)
(* rescore_result carries as original_score the score get_score returned   *)
(* at the start of the call and as new_score the calculated score; every   *)
(* audit event carries usage_key.                                          *)
(***************************************************************************)
C13_AuditMatchesPath ==
    Ended =>
        /\ Cardinality(AuditEvents) = 1
        /\ LET e == TheAudit
               failure == IF "failure" \in DOMAIN e.payload
                          THEN e.payload.failure ELSE ""
               tag == IF "result" \in DOMAIN e.payload
                      THEN e.payload.result ELSE ""
               raised == call.allowed /\ call.before # None /\ call.calc.raises
           IN  /\ e.name = "rescore_failure" <=> failure # ""
               /\ e.name = "rescore_result" <=> tag # ""
               /\ failure \in {"", "unsupported", "unanswered", "calculation error"}
               /\ tag \in {"", "score updated", "score not changed"}
               /\ failure = "unsupported" <=> ~call.allowed
               /\ failure = "unanswered" <=> (call.allowed /\ call.before = None)
               /\ failure = "calculation error" <=> raised
               /\ tag = "score updated" <=> Called("set_score")
               /\ tag = "score not changed" <=> (Calculated /\ ~Called("set_score"))
               /\ tag # "" =>
                     /\ e.payload.original_score = AsDict(call.before)
                     /\ e.payload.new_score = AsDict(call.calc.value)
               /\ "usage_key" \in DOMAIN e.payload
               /\ e.payload.usage_key = TextType(location)

C13_Witness ==
    /\ Ended
    /\ Called("set_score")
    /\ setKind = "stub"
    /\ result # call.before
    /\ Cardinality(AuditEvents) = 1
    /\ TheAudit.payload.result = "score updated"
    /\ TheAudit.payload.original_score = AsDict(call.before)
    /\ TheAudit.payload.new_score = AsDict(result)

(***************************************************************************)
(* C16.  On a unit that does not allow rescoring and has no persisted      *)
(* score, rescore raises TypeError and publishes the 'unsupported'         *)
(* failure, never ValueError or 'unanswered', and does not call get_score. *)
(***************************************************************************)
C16_UnsupportedFirst ==
    (Ended /\ ~call.allowed /\ call.before = None) =>
        /\ outcome = "TypeError"
        /\ ~Called("get_score")
        /\ Len(published) = 1
        /\ published[1].name = "rescore_failure"
        /\ published[1].payload.failure = "unsupported"

C16_Witness ==
    /\ Ended
    /\ ~call.allowed
    /\ call.before = None
    /\ result = None
    /\ outcome = "TypeError"
    /\ published[1].payload.failure = "unsupported"

(***************************************************************************)
(* C17.  On a unit whose set_score stores its argument, a rescore call     *)
(* with only_if_higher True leaves the persisted score as it is or         *)
(* replaces a present score by a strictly greater one: over a sequence of  *)
(* such calls the score never decreases in (earned, total) order, never    *)
(* goes from present to absent and never from absent to present.           *)
(***************************************************************************)
C17_NeverDecreases ==
    [][(call'.only_if_higher /\ setKind = "stub") =>
          \/ result' = result
          \/ /\ result # None
             /\ result' # None
             /\ ScoreGt(result', result)]_vars

C17_Witness ==
    /\ Ended
    /\ call.only_if_higher
    /\ setKind = "stub"
    /\ outcome = "True"
    /\ call.before # None
    /\ result # None
    /\ ScoreGt(result, call.before)

(***************************************************************************)
(* C14.  _publish_scoring_event(name, data) does not change the caller's   *)
(* mapping: after the call data has the keys and values it was passed      *)
(* with, and has gained no usage_key, which is in the published payload    *)
(* only.                                                                   *)
(***************************************************************************)
C14_CallerDataUntouched ==
    (outcome = "None" /\ Len(published) = 1) =>
        /\ data = passed
        /\ DOMAIN data = DOMAIN passed
        /\ "usage_key" \notin DOMAIN passed =>
              /\ "usage_key" \notin DOMAIN data
              /\ "usage_key" \in DOMAIN published[1].payload
              /\ published[1].payload # data

C14_Witness ==
    /\ outcome = "None"
    /\ Len(published) = 1
    /\ DOMAIN passed = {"failure"}
    /\ data = passed
    /\ DOMAIN published[1].payload = {"failure", "usage_key"}

(***************************************************************************)
(* C15.  Two rescore(only_if_higher=True) calls on one unit are not        *)
(* isolated from each other: interleaved at get_score, calculate_score     *)
(* and set_score, one call can replace the score the other persisted by a  *)
(* score that is not greater (the persisted score goes down); when the     *)
(* host serializes the calls this never happens.                           *)
(***************************************************************************)
C15_SerializedNoLostUpdate ==
    /\ serialized => lost = None
    /\ serialized =>
          \A p, q \in Procs :
              (p # q /\ procs[p].pc \in {"read", "calculated"})
                  => procs[q].pc \in {"idle", "done"}

C15_Witness ==
    /\ ~serialized
    /\ lost # None
    /\ ScoreGt(lost[1], lost[2])
    /\ result = lost[2]
    /\ \A p \in Procs : procs[p].frame.outcome = "True"
=============================================================================
